---- MODULE Spec2Model ----
(***************************************************************************)
(* A model of the Game of Life universe of src/src/lib.rs: a toroidal      *)
(* grid stored as a double buffered bit set (dubble::DoubleBuffered over   *)
(* fixedbitset::FixedBitSet).  Reads go to the read buffer (Deref, Index), *)
(* writes to the write buffer (DerefMut), and update() copies the write    *)
(* buffer into the read buffer.                                            *)
(***************************************************************************)
EXTENDS Integers, Sequences, FiniteSets, TLC

\* width, height, cells and n_ticks are the fields of struct Universe (cells
\* is the pair of buffers); panicked tells that a method has panicked, after
\* which the universe is never used again; last is the name of the method
\* that ran last ("new" at first); tick_pos is -1 while no tick() is running
\* and, where a tick() is followed cell by cell, the number of cells its scan
\* has written so far.  The dimensions stay so small that no u32 product or
\* sum of the code wraps.
VARIABLES width, height, cells, n_ticks, panicked, last, tick_pos

vars == <<width, height, cells, n_ticks, panicked, last, tick_pos>>

(* ------------------------------ bounds -------------------------------- *)

\* Largest number of cells (width * height) asked of new, set_width and
\* set_height.
MaxSize == 4
\* Largest value given to set_ticks.
MaxTicks == 2
\* Longest list of cells given to set_cells.
MaxCells == 1
\* Largest width and height of the universes of SpecBlinker (from 5 x 5 on).
BlinkerMaxSide == 6
\* Largest width and height of the universes of SpecBlock (from 4 x 4 on).
BlockMaxSide == 5
\* Largest width and height, and largest number of cells (width * height),
\* of the universes of SpecGrid.
GridMaxSide == 4
GridMaxSize == 12
\* Largest width and height, and largest number of cells, of the universes of
\* SpecScan.
ScanMaxSide == 3
ScanMaxSize == 9
\* Largest width and height of the universes of SpecGlider (from 6 x 6 on).
GliderMaxSide == 7
\* Largest width and height of the universes of SpecPulsar (from 17 x 17 on).
PulsarMaxSide == 17

(* --------------------------- figure tables ---------------------------- *)

\* GLIDER with its last cell one column to the right: no glider.
GLIDER_bent == <<0, -2, 0, -1, 0, 0, -1, 0, -2, 0>>

GLIDER == <<0, -2, 0, -1, 0, 0, -1, 0, -2, -1>>

PULSAR ==
    <<6, -4, 6, -3, 6, -2, 6, 2, 6, 3, 6, 4, 4, -6, 4, -1, 4, 1, 4, 6, 3, -6, 3, -1, 3, 1, 3, 6, 2,
      -6, 2, -1, 2, 1, 2, 6, 1, -4, 1, -3, 1, -2, 1, 2, 1, 3, 1, 4, -6, -4, -6, -3, -6, -2, -6, 2,
      -6, 3, -6, 4, -4, -6, -4, -1, -4, 1, -4, 6, -3, -6, -3, -1, -3, 1, -3, 6, -2, -6, -2, -1, -2,
      1, -2, 6, -1, -4, -1, -3, -1, -2, -1, 2, -1, 3, -1, 4>>

(* ------------------------------ u32 anchors --------------------------- *)
(* The row and column given to create_glider and create_pulsar are u32     *)
(* values that the code casts to i32.  Such a value is held as             *)
(* [hi |-> its top bit, lo |-> its low 31 bits], that is hi * 2^31 + lo.   *)

\* The u32 value n, for 0 <= n < 2^31.
U32(n) == [hi |-> 0, lo |-> n]

\* u32::MAX = 2^32 - 1.
U32Max == [hi |-> 1, lo |-> 2147483647]

\* The value of the u32 x modulo n, for n >= 1.
U32Mod(x, n) == (x.hi * ((2147483647 % n) + 1) + (x.lo % n)) % n

(* ----------------------------- FixedBitSet ---------------------------- *)
(* A bit set is [length |-> n, ones |-> the set of indices holding 1].     *)

\* FixedBitSet::with_capacity(bits): `bits` zero bits.
with_capacity(bits) == [length |-> bits, ones |-> {}]

\* The bound every writing method asserts (set, insert, toggle panic beyond it).
in_bounds(b, bit) == bit < b.length

\* b[bit] / contains(bit): false beyond the length.
contains(b, bit) == bit \in b.ones

\* FixedBitSet::set(bit, enabled), for bit < length.
fbs_set(b, bit, enabled) ==
    [b EXCEPT !.ones = IF enabled THEN @ \cup {bit} ELSE @ \ {bit}]

\* FixedBitSet::insert(bit), for bit < length.
fbs_insert(b, bit) == [b EXCEPT !.ones = @ \cup {bit}]

\* FixedBitSet::toggle(bit), for bit < length.
fbs_toggle(b, bit) ==
    [b EXCEPT !.ones = IF bit \in @ THEN @ \ {bit} ELSE @ \cup {bit}]

\* FixedBitSet::clear(): every bit zero, the length kept.
fbs_clear(b) == [b EXCEPT !.ones = {}]

\* FixedBitSet::grow(bits): longer only, new bits zero.
fbs_grow(b, bits) == IF bits > b.length THEN [b EXCEPT !.length = bits] ELSE b

(* --------------------------- DoubleBuffered --------------------------- *)
(* A double buffer is [rbuf |-> read buffer, wbuf |-> write buffer].       *)

\* DoubleBuffered::new(value): both buffers hold the value.
db_new(value) == [rbuf |-> value, wbuf |-> value]

\* update as a swap of the two buffers: the write buffer is left holding the
\* generation before.
db_update_swap(c) == [rbuf |-> c.wbuf, wbuf |-> c.rbuf]

\* DoubleBuffered::update(): the write buffer is copied into the read buffer.
db_update(c) == [c EXCEPT !.rbuf = c.wbuf]

\* DoubleBuffered::upsert(value): both buffers are replaced by the value.
db_upsert(c, value) == [rbuf |-> value, wbuf |-> value]

(* ------------------------------ Universe ------------------------------ *)
(* A universe value is [width, height, cells, n_ticks, panicked]: the four *)
(* fields of the struct, and whether a method has panicked (the bit set's  *)
(* assertion failed, which aborts the program).                            *)

Min(a, b) == IF a < b THEN a ELSE b

\* `x as u8` for a bool.
as_u8(x) == IF x THEN 1 ELSE 0

\* Universe::size
size(u) == u.width * u.height

\* Universe::get_index
get_index(u, row, column) == row * u.width + column

\* Universe::reset, the iterations lo .. hi - 1 of its loop, in order (the
\* first half of them, then the second half); `alive` holds the indices for
\* which Math.random() < 0.5.  set() panics on an index beyond the write
\* buffer's length, which ends the loop.
RECURSIVE reset_loop(_, _, _, _)
reset_loop(u, alive, lo, hi) ==
    IF u.panicked \/ lo >= hi THEN u
    ELSE IF hi = lo + 1
        THEN IF ~in_bounds(u.cells.wbuf, lo) THEN [u EXCEPT !.panicked = TRUE]
             ELSE [u EXCEPT !.cells.wbuf = fbs_set(@, lo, lo \in alive)]
    ELSE LET mid == (lo + hi) \div 2
         IN  reset_loop(reset_loop(u, alive, lo, mid), alive, mid, hi)

\* Universe::reset
reset(u, alive) ==
    LET v == reset_loop(u, alive, 0, size(u))
    IN  IF v.panicked THEN v ELSE [v EXCEPT !.cells = db_update(@)]

\* Universe::reset_with_size: curr_size is read from the fields, which the
\* callers have already changed.
reset_with_size(u, new_size, alive) ==
    LET curr_size == size(u)
        v == IF new_size > curr_size
                THEN [u EXCEPT !.cells.wbuf = fbs_grow(@, new_size)]
             ELSE IF new_size < curr_size
                THEN [u EXCEPT !.cells = db_upsert(@, with_capacity(new_size))]
             ELSE u
    IN  reset(v, alive)

\* new without the call of reset: every cell stays dead.
new_without_reset(w, h, alive) ==
    [width |-> w, height |-> h, cells |-> db_new(with_capacity(w * h)),
     n_ticks |-> 1, panicked |-> FALSE]

\* Universe::new
new(w, h, alive) ==
    reset([width |-> w, height |-> h,
           cells |-> db_new(with_capacity(w * h)),
           n_ticks |-> 1, panicked |-> FALSE], alive)

\* clear without the commit: the read buffer keeps its cells.
clear_uncommitted(u) == [u EXCEPT !.cells.wbuf = fbs_clear(@)]

\* Universe::clear
clear(u) == [u EXCEPT !.cells = db_update([@ EXCEPT !.wbuf = fbs_clear(@)])]

\* Universe::set_ticks
set_ticks(u, ticks) == [u EXCEPT !.n_ticks = ticks]

\* Universe::set_width
set_width(u, w, alive) ==
    LET v == [u EXCEPT !.width = w]
        new_size == w * v.height
    IN  reset_with_size(v, new_size, alive)

\* Universe::set_height
set_height(u, h, alive) ==
    LET v == [u EXCEPT !.height = h]
        new_size == v.width * h
    IN  reset_with_size(v, new_size, alive)

\* live_neighbor_count with the east neighbour not wrapped at the last column.
live_neighbor_count_no_wrap(u, row, column) ==
    LET north == IF row = 0 THEN u.height - 1 ELSE row - 1
        south == IF row = u.height - 1 THEN 0 ELSE row + 1
        west == IF column = 0 THEN u.width - 1 ELSE column - 1
        east == column + 1
        at(r, c) == as_u8(contains(u.cells.rbuf, r * u.width + c))
    IN  at(north, west) + at(north, column) + at(north, east)
        + at(row, west) + at(row, east)
        + at(south, west) + at(south, column) + at(south, east)

\* live_neighbor_count with the north neighbour of row 0 not wrapped to the
\* last row.
live_neighbor_count_north_clamped(u, row, column) ==
    LET north == IF row = 0 THEN 0 ELSE row - 1
        south == IF row = u.height - 1 THEN 0 ELSE row + 1
        west == IF column = 0 THEN u.width - 1 ELSE column - 1
        east == IF column = u.width - 1 THEN 0 ELSE column + 1
        at(r, c) == as_u8(contains(u.cells.rbuf, r * u.width + c))
    IN  at(north, west) + at(north, column) + at(north, east)
        + at(row, west) + at(row, east)
        + at(south, west) + at(south, column) + at(south, east)

\* The indices nw, n, ne, w, e, sw, s, se that Universe::live_neighbor_count
\* computes, in the order in which it computes them.
neighbor_indices(u, row, column) ==
    LET north == IF row = 0 THEN u.height - 1 ELSE row - 1
        south == IF row = u.height - 1 THEN 0 ELSE row + 1
        west == IF column = 0 THEN u.width - 1 ELSE column - 1
        east == IF column = u.width - 1 THEN 0 ELSE column + 1
    IN  <<get_index(u, north, west), get_index(u, north, column), get_index(u, north, east),
          get_index(u, row, west), get_index(u, row, east),
          get_index(u, south, west), get_index(u, south, column), get_index(u, south, east)>>

\* Universe::live_neighbor_count: the bits of the read buffer at the eight
\* indices, summed.
live_neighbor_count(u, row, column) ==
    LET idx == neighbor_indices(u, row, column)
        at(k) == as_u8(contains(u.cells.rbuf, idx[k]))
    IN  at(1) + at(2) + at(3) + at(4) + at(5) + at(6) + at(7) + at(8)

\* next_cell with the first arm off by one: a live cell with 2 neighbours dies.
next_cell_off_by_one(cell, live_neighbors) ==
    CASE cell /\ live_neighbors <= 2 -> FALSE
      [] cell /\ live_neighbors = 3 -> TRUE
      [] cell /\ live_neighbors > 3 -> FALSE
      [] ~cell /\ live_neighbors = 3 -> TRUE
      [] OTHER -> cell

\* The match of Universe::tick: the next state of a cell.
next_cell(cell, live_neighbors) ==
    CASE cell /\ live_neighbors < 2 -> FALSE
      [] cell /\ live_neighbors \in {2, 3} -> TRUE
      [] cell /\ live_neighbors > 3 -> FALSE
      [] ~cell /\ live_neighbors = 3 -> TRUE
      [] OTHER -> cell

\* tick_cell with the result written through to both buffers.
tick_cell_write_through(u, row, col) ==
    LET idx == row * u.width + col
        cell == contains(u.cells.rbuf, idx)
        live_neighbors == live_neighbor_count(u, row, col)
        written == fbs_set(u.cells.wbuf, idx, next_cell(cell, live_neighbors))
    IN  [u EXCEPT !.cells = [rbuf |-> fbs_set(u.cells.rbuf, idx, contains(written, idx)),
                             wbuf |-> written]]

\* tick_cell as an in-place update would have it: the cell and its neighbours
\* are read from the buffer being written.
tick_cell_in_place(u, row, col) ==
    LET idx == get_index(u, row, col)
        scanned == [u EXCEPT !.cells.rbuf = u.cells.wbuf]
        cell == contains(u.cells.wbuf, idx)
        live_neighbors == live_neighbor_count(scanned, row, col)
    IN  [u EXCEPT !.cells.wbuf = fbs_set(@, idx, next_cell(cell, live_neighbors))]

\* The body of the loops of Universe::tick for one (row, col): the cell is
\* read from the read buffer, the result is written to the write buffer.
tick_cell(u, row, col) ==
    LET idx == get_index(u, row, col)
        cell == contains(u.cells.rbuf, idx)
        live_neighbors == live_neighbor_count(u, row, col)
    IN  [u EXCEPT !.cells.wbuf = fbs_set(@, idx, next_cell(cell, live_neighbors))]

\* The inner loop of Universe::tick over the columns col.. of one row.
RECURSIVE tick_row(_, _, _)
tick_row(u, row, col) ==
    IF col >= u.width THEN u
    ELSE tick_row(tick_cell(u, row, col), row, col + 1)

\* The loops of Universe::tick from the cell (row, col) of the scan on: the
\* rest of that row, then the rows after it.
RECURSIVE tick_loop(_, _, _)
tick_loop(u, row, col) ==
    IF row >= u.height THEN u
    ELSE tick_loop(tick_row(u, row, col), row + 1, 0)

\* Universe::tick
tick(u) == [tick_loop(u, 0, 0) EXCEPT !.cells = db_update(@)]

\* update_loop over 0..=n_ticks: one tick too many.
RECURSIVE update_loop_inclusive(_, _)
update_loop_inclusive(u, i) ==
    IF i > u.n_ticks THEN u ELSE update_loop_inclusive(tick(u), i + 1)

\* Universe::update, the iterations i.. of its loop.
RECURSIVE update_loop(_, _)
update_loop(u, i) == IF i >= u.n_ticks THEN u ELSE update_loop(tick(u), i + 1)

\* update that counts n_ticks down to 0 as it ticks.
update_consuming(u) == [update_loop(u, 0) EXCEPT !.n_ticks = 0]

\* Universe::update
update(u) == update_loop(u, 0)

\* toggle_cell without the commit: only the write buffer changes.
toggle_cell_uncommitted(u, row, column) ==
    [u EXCEPT !.cells.wbuf = fbs_toggle(@, row * u.width + column)]

\* Universe::toggle_cell
toggle_cell(u, row, column) ==
    LET idx == get_index(u, row, column)
    IN  [u EXCEPT !.cells = db_update([@ EXCEPT !.wbuf = fbs_toggle(@, idx)])]

\* i32::rem_euclid for a positive modulus (TLA+'s % is the Euclidean one).
rem_euclid(a, n) == a % n

\* `x as i32` for a u32 anchor: the same 32 bits read as a signed number, so
\* that a value of 2^31 or more becomes negative (x - 2^32).
as_i32(x) == IF x.hi = 1 THEN x.lo - 2147483647 - 1 ELSE x.lo

\* The i32 sum a + b of create_figure where it passes the ends of i32: the
\* build without overflow checks wraps it by 2^32 (with overflow checks the
\* call panics there, before it computes an index).  b is an offset of a
\* figure table.
i32_add(a, b) ==
    IF b > 0 /\ a > 2147483647 - b
        THEN (((a - 2147483647) - 1) + b) - 2147483647 - 1
    ELSE IF b < 0 /\ a < (-2147483647 - 1) - b
        THEN (((a + 2147483647) + 1) + b) + 2147483647 + 1
    ELSE a + b

\* figure_index with the % operator of i32, whose remainder has the sign of
\* its left operand, in place of rem_euclid.
figure_index_signed(u, coords, row, column, i) ==
    LET rem_signed(a, n) == IF a >= 0 \/ a % n = 0 THEN a % n ELSE (a % n) - n
        aux_row == rem_signed(i32_add(as_i32(row), coords[2 * i + 1]), u.height)
        aux_col == rem_signed(i32_add(as_i32(column), coords[2 * i + 2]), u.width)
    IN  aux_row * u.width + aux_col

\* The index Universe::create_figure computes in iteration i of its loop
\* (coords is 1-based here: coords[i * 2] of the code is coords[2 * i + 1]).
\* row and column are u32 anchors; the dimensions are below 2^31, where
\* `as i32` changes nothing.
figure_index(u, coords, row, column, i) ==
    LET aux_row == rem_euclid(i32_add(as_i32(row), coords[2 * i + 1]), u.height)
        aux_col == rem_euclid(i32_add(as_i32(column), coords[2 * i + 2]), u.width)
    IN  get_index(u, aux_row, aux_col)

\* figure_loop with toggle in place of insert.
RECURSIVE figure_loop_toggle(_, _, _, _, _)
figure_loop_toggle(u, coords, row, column, i) ==
    IF i >= Len(coords) \div 2 THEN u
    ELSE LET aux_row == rem_euclid(as_i32(row) + coords[2 * i + 1], u.height)
             aux_col == rem_euclid(as_i32(column) + coords[2 * i + 2], u.width)
             idx == aux_row * u.width + aux_col
         IN  figure_loop_toggle([u EXCEPT !.cells.wbuf = fbs_toggle(@, idx)],
                                coords, row, column, i + 1)

\* Universe::create_figure, the iterations i.. of its loop.
RECURSIVE figure_loop(_, _, _, _, _)
figure_loop(u, coords, row, column, i) ==
    IF i >= Len(coords) \div 2 THEN u
    ELSE LET idx == figure_index(u, coords, row, column, i)
         IN  figure_loop([u EXCEPT !.cells.wbuf = fbs_insert(@, idx)],
                         coords, row, column, i + 1)

\* Universe::create_figure
create_figure(u, coords, row, column) ==
    [figure_loop(u, coords, row, column, 0) EXCEPT !.cells = db_update(@)]

\* Universe::create_glider
create_glider(u, row, column) == create_figure(u, GLIDER, row, column)

\* create_pulsar with the first half of the table only.
create_pulsar_half(u, row, column) ==
    create_figure(u, SubSeq(PULSAR, 1, Len(PULSAR) \div 2), row, column)

\* Universe::create_pulsar
create_pulsar(u, row, column) == create_figure(u, PULSAR, row, column)

\* Universe::set_cells, the iterations i.. of its loop over the list.
RECURSIVE set_cells_loop(_, _, _)
set_cells_loop(u, list, i) ==
    IF i > Len(list) THEN u
    ELSE LET idx == get_index(u, list[i][1], list[i][2])
         IN  set_cells_loop([u EXCEPT !.cells.wbuf = fbs_set(@, idx, TRUE)], list, i + 1)

\* Universe::set_cells
set_cells(u, list) == [set_cells_loop(u, list, 1) EXCEPT !.cells = db_update(@)]

(* ------------------------- the state machine -------------------------- *)

\* The universe held by the variables.
self == [width |-> width, height |-> height, cells |-> cells,
         n_ticks |-> n_ticks, panicked |-> panicked]

\* The outcomes of the Math.random() calls of one reset over the first n
\* cells: the set of indices drawn alive.
Draws(n) == SUBSET (0 .. n - 1)

\* The number of cells a reset of a universe of `sz` cells writes before it
\* returns or panics.
Written(sz) == Min(sz, cells.wbuf.length)

\* The (row, column) pairs of a grid of h rows and w columns.
Grid(w, h) == (0 .. h - 1) \X (0 .. w - 1)

\* The (row, column) pairs inside the universe.
Positions == Grid(width, height)

\* Anchors of create_glider and create_pulsar: every position of the grid,
\* the first row and column beyond it, and u32::MAX (with these the i32 sums
\* of create_figure do not overflow).
Anchors ==
    ({U32(r) : r \in 0 .. height} \cup {U32Max})
        \X ({U32(c) : c \in 0 .. width} \cup {U32Max})

\* The anchors below 2^31 in both coordinates.
SmallAnchors == {p \in Anchors : p[1].hi = 0 /\ p[2].hi = 0}

\* The anchors the actions call create_glider and create_pulsar with: every
\* position of the grid, the corner beyond it, and (u32::MAX, u32::MAX).
StampAnchors ==
    {<<U32(p[1]), U32(p[2])>> : p \in Positions}
        \cup {<<U32(height), U32(width)>>, <<U32Max, U32Max>>}

\* Anchors at the ends of the ranges, row and column alike: the first and the
\* last cell, the corner beyond the grid, i32::MAX and 2^31 (where the i32 sum
\* passes an end of i32) and u32::MAX.  The row of a stamped cell depends on
\* the anchor's row only and its column on the anchor's column only.
ExtremeAnchors ==
    {<<U32(0), U32(0)>>, <<U32(height - 1), U32(width - 1)>>,
     <<U32(height), U32(width)>>, <<U32(2147483647), U32(2147483647)>>,
     <<[hi |-> 1, lo |-> 0], [hi |-> 1, lo |-> 0]>>, <<U32Max, U32Max>>}

\* The lists set_cells is called with.
CellLists == UNION {[1 .. n -> Positions] : n \in 0 .. MaxCells}

\* The variables hold the universe v, left by the method `op`.
Holds(v, op) ==
    /\ width = v.width
    /\ height = v.height
    /\ cells = v.cells
    /\ n_ticks = v.n_ticks
    /\ panicked = v.panicked
    /\ last = op
    /\ tick_pos = -1

\* The method `op` has run on the universe and left it as v; `last` records
\* the method.  Nothing runs after a panic.
Becomes(v, op) ==
    /\ ~panicked
    /\ tick_pos = -1
    /\ tick_pos' = -1
    /\ \E x \in {v} :
           /\ width' = x.width
           /\ height' = x.height
           /\ cells' = x.cells
           /\ n_ticks' = x.n_ticks
           /\ panicked' = x.panicked
           /\ last' = op

Init ==
    \E w \in 1 .. MaxSize, h \in 1 .. MaxSize :
        /\ w * h <= MaxSize
        /\ \E alive \in Draws(w * h) : Holds(new(w, h, alive), "new")

Reset == \E alive \in Draws(Written(size(self))) : Becomes(reset(self, alive), "reset")

Clear == Becomes(clear(self), "clear")

SetTicks == \E ticks \in 0 .. MaxTicks : Becomes(set_ticks(self, ticks), "set_ticks")

SetWidth ==
    \E w \in 1 .. MaxSize :
        /\ w * height <= MaxSize
        /\ \E alive \in Draws(Written(w * height)) :
               Becomes(set_width(self, w, alive), "set_width")

SetHeight ==
    \E h \in 1 .. MaxSize :
        /\ width * h <= MaxSize
        /\ \E alive \in Draws(Written(width * h)) :
               Becomes(set_height(self, h, alive), "set_height")

Update == Becomes(update(self), "update")

Tick == Becomes(tick(self), "tick")

ToggleCell == \E p \in Positions : Becomes(toggle_cell(self, p[1], p[2]), "toggle_cell")

CreateGlider == \E p \in StampAnchors : Becomes(create_glider(self, p[1], p[2]), "create_glider")

CreatePulsar == \E p \in StampAnchors : Becomes(create_pulsar(self, p[1], p[2]), "create_pulsar")

SetCells == \E list \in CellLists : Becomes(set_cells(self, list), "set_cells")

Next ==
    \/ Reset
    \/ Clear
    \/ SetTicks
    \/ SetWidth
    \/ SetHeight
    \/ Update
    \/ Tick
    \/ ToggleCell
    \/ CreateGlider
    \/ CreatePulsar
    \/ SetCells

\* The program: a universe built by new, then any calls of its methods.
Spec == Init /\ [][Next]_vars

\* Every universe new can build with sides of at most GridMaxSide and at most
\* GridMaxSize cells, every configuration of it, then ticks and gliders.
InitGrid ==
    \E w \in 1 .. GridMaxSide, h \in 1 .. GridMaxSide :
        /\ w * h <= GridMaxSize
        /\ \E alive \in Draws(w * h) : Holds(new(w, h, alive), "new")

NextGrid ==
    \/ Tick
    \/ CreateGlider

SpecGrid == InitGrid /\ [][NextGrid]_vars

\* tick() is entered: its scan stands before the first cell.
TickBegin ==
    /\ ~panicked
    /\ tick_pos = -1
    /\ tick_pos' = 0
    /\ last' = "tick"
    /\ UNCHANGED <<width, height, cells, n_ticks, panicked>>

\* One iteration of the loops of tick(): the cell of the scan's position, in
\* row-major order.
TickCell ==
    /\ tick_pos >= 0
    /\ tick_pos < height * width
    /\ cells' = tick_cell(self, tick_pos \div width, tick_pos % width).cells
    /\ tick_pos' = tick_pos + 1
    /\ UNCHANGED <<width, height, n_ticks, panicked, last>>

\* The loops of tick() are over: self.cells.update(), and tick() returns.
TickCommit ==
    /\ tick_pos = height * width
    /\ cells' = db_update(cells)
    /\ tick_pos' = -1
    /\ UNCHANGED <<width, height, n_ticks, panicked, last>>

\* Every universe new can build with sides of at most ScanMaxSide and at most
\* ScanMaxSize cells, every configuration of it, then ticks followed cell by
\* cell.
InitScan ==
    \E w \in 1 .. ScanMaxSide, h \in 1 .. ScanMaxSide :
        /\ w * h <= ScanMaxSize
        /\ \E alive \in Draws(w * h) : Holds(new(w, h, alive), "new")

NextScan ==
    \/ TickBegin
    \/ TickCell
    \/ TickCommit

SpecScan == InitScan /\ [][NextScan]_vars

\* The horizontal line of three cells centred at p, as a list for set_cells.
HLineList(p, w) == <<<<p[1], (p[2] - 1) % w>>, p, <<p[1], (p[2] + 1) % w>>>>

\* An all-dead universe of at least 5 x 5 (new, with no cell drawn alive) on
\* which set_cells has laid a horizontal blinker, then ticks.
InitBlinker ==
    \E w \in 5 .. BlinkerMaxSide, h \in 5 .. BlinkerMaxSide :
        \E p \in Grid(w, h) :
            Holds(set_cells(new(w, h, {}), HLineList(p, w)), "set_cells")

NextBlinker == Tick

SpecBlinker == InitBlinker /\ [][NextBlinker]_vars

\* The 2 x 2 block whose top left cell is p, as a list for set_cells.
BlockList(p, w, h) ==
    <<p, <<p[1], (p[2] + 1) % w>>, <<(p[1] + 1) % h, p[2]>>,
      <<(p[1] + 1) % h, (p[2] + 1) % w>>>>

\* An all-dead universe of at least 4 x 4 on which set_cells has laid a 2 x 2
\* block, then ticks.
InitBlock ==
    \E w \in 4 .. BlockMaxSide, h \in 4 .. BlockMaxSide :
        \E p \in Grid(w, h) :
            Holds(set_cells(new(w, h, {}), BlockList(p, w, h)), "set_cells")

NextBlock == Tick

SpecBlock == InitBlock /\ [][NextBlock]_vars

\* The anchors of a grid of h rows and w columns: every position, the corner
\* beyond the grid, and (u32::MAX, u32::MAX).
GridAnchors(w, h) ==
    {<<U32(p[1]), U32(p[2])>> : p \in Grid(w, h)}
        \cup {<<U32(h), U32(w)>>, <<U32Max, U32Max>>}

\* A universe of at least 6 x 6, cleared, on which create_glider has stamped
\* one glider, then ticks.
InitGlider ==
    \E w \in 6 .. GliderMaxSide, h \in 6 .. GliderMaxSide :
        \E a \in GridAnchors(w, h) :
            Holds(create_glider(clear(new(w, h, {})), a[1], a[2]), "create_glider")

NextGlider == Tick

SpecGlider == InitGlider /\ [][NextGlider]_vars

\* Anchors for the pulsar on a grid of h rows and w columns: every column of
\* the first and of the last row, a cell in the middle, the corner beyond the
\* grid, and (u32::MAX, u32::MAX).
PulsarAnchors(w, h) ==
    {<<U32(r), U32(c)>> : r \in {0, h - 1}, c \in 0 .. w - 1}
        \cup {<<U32(8), U32(8)>>, <<U32(h), U32(w)>>, <<U32Max, U32Max>>}

\* A universe of at least 17 x 17, cleared, on which create_pulsar has stamped
\* one pulsar, then ticks.
InitPulsar ==
    \E w \in 17 .. PulsarMaxSide, h \in 17 .. PulsarMaxSide :
        \E a \in PulsarAnchors(w, h) :
            Holds(create_pulsar(clear(new(w, h, {})), a[1], a[2]), "create_pulsar")

NextPulsar == Tick

SpecPulsar == InitPulsar /\ [][NextPulsar]_vars

(* ----------------------- what the host observes ----------------------- *)

\* The visible state of a universe: the (row, column) pairs whose bit the
\* host finds set in the read buffer, at bit row * width + column.
Alive(u) == {p \in Grid(u.width, u.height) : contains(u.cells.rbuf, p[1] * u.width + p[2])}

\* The last call was one of the two methods that change a dimension.
Resized == last \in {"set_width", "set_height"}

(* ---------------------- the rule B3/S23 on a torus -------------------- *)

\* The eight offsets of the Moore neighbourhood.
Moore == {d \in (-1 .. 1) \X (-1 .. 1) : d # <<0, 0>>}

\* The live neighbours of p on the torus of h rows and w columns, a neighbour
\* counted once for every offset that wraps onto it.
WrappedCount(alive, p, w, h) ==
    Cardinality({d \in Moore : <<(p[1] + d[1]) % h, (p[2] + d[2]) % w>> \in alive})

\* One synchronous generation: survival on 2 or 3, birth on 3.
LifeStep(alive, w, h) ==
    {p \in Grid(w, h) :
        LET n == WrappedCount(alive, p, w, h)
        IN  IF p \in alive THEN n \in {2, 3} ELSE n = 3}

\* n generations.
RECURSIVE LifeSteps(_, _, _, _)
LifeSteps(alive, w, h, n) ==
    IF n = 0 THEN alive ELSE LifeStep(LifeSteps(alive, w, h, n - 1), w, h)

\* The universe after n sequential tick() calls.
RECURSIVE NTicks(_, _)
NTicks(u, n) == IF n = 0 THEN u ELSE tick(NTicks(u, n - 1))

(* ------------------------------- claims ------------------------------- *)

\* C1: in every state reached by new and any calls of the public methods,
\* the cell storage (both buffers) holds exactly width * height bits.
StorageLengthIsSize ==
    ~panicked =>
        /\ cells.rbuf.length = width * height
        /\ cells.wbuf.length = width * height

\* C3: a set_width or set_height call with a positive dimension runs to
\* completion without aborting, and the storage then holds size() cells.
ResizeCompletes ==
    Resized => ~panicked /\ cells.rbuf.length >= width * height

\* C4: after set_width or set_height has returned, every cell is dead.
ResizeLeavesAllDead ==
    (Resized /\ ~panicked) => Alive(self) = {}

\* C2: for every width >= 1 and height >= 1 and every configuration, the
\* visible state after tick() is the synchronous B3/S23 step on the torus of
\* the visible state before it (wrapped neighbours counted with
\* multiplicity); the dimensions stay, and the result does not depend on
\* what the write buffer held.
TickIsLifeStep ==
    LET v == tick(self)
        w == tick([self EXCEPT !.cells.wbuf = fbs_clear(@)])
    IN  /\ Alive(v) = LifeStep(Alive(self), width, height)
        /\ v.width = width /\ v.height = height
        /\ Alive(w) = Alive(v)

\* C2 witness: a tick has run on a 3 x 3 torus and left some cells alive and
\* some dead.
TickIsLifeStepWitness ==
    /\ last = "tick"
    /\ width = 3 /\ height = 3
    /\ Alive(self) # {} /\ Alive(self) # Positions

\* The cells of a glider stamped at the u32 anchor (r, c) on a torus of h
\* rows and w columns.
GliderCells(r, c, w, h) ==
    {<<(U32Mod(r, h) + d[1]) % h, (U32Mod(c, w) + d[2]) % w>> :
        d \in {<<0, -2>>, <<0, -1>>, <<0, 0>>, <<-1, 0>>, <<-2, -1>>}}

\* create_glider at the anchor p makes the five glider cells alive and leaves
\* every other cell and the dimensions as they were.
StampsGliderAt(p) ==
    LET v == create_glider(self, p[1], p[2])
    IN  /\ Alive(v) = Alive(self) \cup GliderCells(p[1], p[2], width, height)
        /\ v.width = width /\ v.height = height

\* C7 as stated: from any state and for every anchor (r, c), after
\* create_glider(r, c) the cells ((r + dr) mod height, (c + dc) mod width) of
\* the five glider offsets are alive and every other cell has the visible
\* value it had before.
GliderStampAnyAnchor == \A p \in Anchors : StampsGliderAt(p)

\* C7 as amended: the same for every anchor (r, c) with r < 2^31 and
\* c < 2^31; and after a create_glider call the five cells of some anchor
\* are alive.
GliderStamp ==
    /\ \A p \in SmallAnchors : StampsGliderAt(p)
    /\ last = "create_glider" =>
           \E p \in Anchors : GliderCells(p[1], p[2], width, height) \subseteq Alive(self)

\* C7 witness: a glider has been stamped on a grid of at least 3 x 3 with its
\* five cells distinct, and a cell outside them is alive as well.
GliderStampWitness ==
    /\ last = "create_glider"
    /\ width >= 3 /\ height >= 3
    /\ \E p \in SmallAnchors :
           /\ GliderCells(p[1], p[2], width, height) \subseteq Alive(self)
           /\ Cardinality(GliderCells(p[1], p[2], width, height)) = 5
           /\ Cardinality(Alive(self)) > 5

\* C5: in every reachable state S, whatever n the last set_ticks(n) stored,
\* update() yields the state n sequential tick() calls yield from S, whose
\* visible cells are the n-th generation after those of S; for n = 0 the
\* visible cells are unchanged.
UpdateIsNTicks ==
    ~panicked =>
        LET v == update(self)
        IN  /\ v = NTicks(self, n_ticks)
            /\ Alive(v) = LifeSteps(Alive(self), width, height, n_ticks)
            /\ n_ticks = 0 => Alive(v) = Alive(self)

\* C5 witness: update() has run with n_ticks = 2 on a 2 x 2 universe and left
\* cells alive.
UpdateIsNTicksWitness ==
    /\ last = "update"
    /\ n_ticks = 2
    /\ width = 2 /\ height = 2
    /\ Alive(self) # {}

\* C6: from any reachable state and for every row < height and column <
\* width, toggle_cell(row, column) inverts the visible value of that cell and
\* of no other, so that a second toggle_cell(row, column) restores the
\* visible grid.
ToggleFlipsOne ==
    ~panicked =>
        \A p \in Positions :
            LET v == toggle_cell(self, p[1], p[2])
            IN  /\ Alive(v) = (Alive(self) \ {p}) \cup ({p} \ Alive(self))
                /\ v.width = width /\ v.height = height
                /\ Alive(toggle_cell(v, p[1], p[2])) = Alive(self)

\* C6 witness: toggle_cell has run on a 2 x 1 universe whose storage is longer
\* than its grid (it was built larger and resized), leaving one cell alive.
ToggleFlipsOneWitness ==
    /\ last = "toggle_cell"
    /\ ~panicked
    /\ width = 2 /\ height = 1
    /\ cells.rbuf.length > width * height
    /\ Cardinality(Alive(self)) = 1

\* C8: from any reachable state, after clear() every cell with index in
\* 0..size() is dead in the visible state, width, height and size() are what
\* they were, and a following tick() leaves the grid all dead.
ClearKillsAll ==
    ~panicked =>
        LET v == clear(self)
        IN  /\ \A i \in 0 .. size(v) - 1 : ~contains(v.cells.rbuf, i)
            /\ Alive(v) = {}
            /\ v.width = width /\ v.height = height /\ size(v) = size(self)
            /\ Alive(tick(v)) = {}
            /\ last = "clear" => Alive(self) = {}

\* C8 witness: clear() has run on a 2 x 2 universe.
ClearKillsAllWitness ==
    /\ last = "clear"
    /\ width = 2 /\ height = 2
    /\ Alive(self) = {}

\* The horizontal and the vertical line of three cells centred at p.
HLine(p) == {<<p[1], (p[2] - 1) % width>>, p, <<p[1], (p[2] + 1) % width>>}

VLine(p) == {<<(p[1] - 1) % height, p[2]>>, p, <<(p[1] + 1) % height, p[2]>>}

\* C9: on a grid of at least 5 x 5 whose only live cells are the horizontal
\* blinker centred at (r, c), the live cells are exactly the vertical line
\* centred at (r, c) after one tick() and exactly the horizontal line again
\* after a second; every tick leaves one of the two lines.
BlinkerOscillates ==
    /\ \A p \in Positions :
           Alive(self) = HLine(p) =>
               /\ Alive(tick(self)) = VLine(p)
               /\ Alive(tick(tick(self))) = HLine(p)
    /\ last = "tick" => \E p \in Positions : Alive(self) \in {HLine(p), VLine(p)}

\* C9 witness: a tick has turned a blinker into the vertical line centred in
\* row 0 and the last column, which wraps over the top edge.
BlinkerOscillatesWitness ==
    /\ last = "tick"
    /\ Alive(self) = VLine(<<0, width - 1>>)

\* The 2 x 2 block whose top left cell is p.
Block(p) ==
    {p, <<p[1], (p[2] + 1) % width>>, <<(p[1] + 1) % height, p[2]>>,
     <<(p[1] + 1) % height, (p[2] + 1) % width>>}

\* C10: on a grid of at least 4 x 4 whose only live cells are a 2 x 2 block,
\* wherever it lies (also across the edges), tick() changes nothing.
BlockIsStill ==
    /\ \A p \in Positions :
           Alive(self) = Block(p) =>
               /\ Alive(tick(self)) = Block(p)
               /\ tick(self).cells.rbuf = cells.rbuf
    /\ \E p \in Positions : Alive(self) = Block(p)

\* C10 witness: a tick has run on the block that starts in the last row and
\* the last column and wraps over both edges.
BlockIsStillWitness ==
    /\ last = "tick"
    /\ Alive(self) = Block(<<height - 1, width - 1>>)

\* The eight cells around (0, 0) on the torus of h rows and w columns.
AroundOrigin(w, h) ==
    {<<h - 1, w - 1>>, <<h - 1, 0>>, <<h - 1, 1>>, <<0, w - 1>>, <<0, 1>>,
     <<1, w - 1>>, <<1, 0>>, <<1, 1>>}

\* The live-neighbour counts of u are 1 on the eight cells around (0, 0) and 0
\* on every other cell, (0, 0) included.
CountsOfLoneOrigin(u) ==
    \A p \in Grid(u.width, u.height) :
        live_neighbor_count(u, p[1], p[2])
            = IF p \in AroundOrigin(u.width, u.height) THEN 1 ELSE 0

\* C11: on a W x H grid with W >= 3 and H >= 3 whose only live cell is (0, 0),
\* the live-neighbour count is 1 for each of the eight cells (H-1,W-1),
\* (H-1,0), (H-1,1), (0,W-1), (0,1), (1,W-1), (1,0), (1,1), which are
\* distinct, and 0 for every other cell, (0, 0) included; so the next tick
\* leaves no cell alive.
LoneCellCounts ==
    (width >= 3 /\ height >= 3) =>
        LET lone == set_cells(clear(self), <<<<0, 0>>>>)
        IN  /\ Alive(lone) = {<<0, 0>>}
            /\ Cardinality(AroundOrigin(width, height)) = 8
            /\ CountsOfLoneOrigin(lone)
            /\ Alive(self) = {<<0, 0>>} =>
                   /\ CountsOfLoneOrigin(self)
                   /\ Alive(tick(self)) = {}

\* C11 witness: a 4 x 3 universe (4 columns, 3 rows) whose only live cell is
\* (0, 0), where the cell (2, 3) across both edges counts one live neighbour.
LoneCellCountsWitness ==
    /\ width = 4 /\ height = 3
    /\ Alive(self) = {<<0, 0>>}
    /\ live_neighbor_count(self, 2, 3) = 1

\* C12: immediately after new(w, h) the width is w, the height is h, both
\* buffers hold exactly w * h cells, n_ticks is 1, so that the first update()
\* is exactly one tick(), and every one of the 2^(w*h) configurations of the
\* grid is the visible state new leaves for some outcome of its random draws.
NewIsAsAsked ==
    last = "new" =>
        /\ ~panicked
        /\ n_ticks = 1
        /\ cells.rbuf.length = width * height
        /\ cells.wbuf.length = width * height
        /\ update(self) = tick(self)
        /\ \A config \in SUBSET Positions :
               \E alive \in Draws(width * height) :
                   LET u == new(width, height, alive)
                   IN  /\ u.width = width /\ u.height = height
                       /\ u.cells.rbuf.length = width * height
                       /\ u.n_ticks = 1 /\ ~u.panicked
                       /\ Alive(u) = config

\* C12 witness: new(2, 2) has left the two cells of a diagonal alive.
NewIsAsAskedWitness ==
    /\ last = "new"
    /\ width = 2 /\ height = 2
    /\ n_ticks = 1
    /\ Alive(self) = {<<0, 1>>, <<1, 0>>}

\* C13: while tick() scans the grid cell by cell, the read buffer is never
\* modified: each step of the scan writes the write buffer only, and there
\* only the bit of its cell; the visible state changes at no step but the
\* commit that follows the last cell; and at every point of the scan the
\* commit will show the generation after the one visible at that point.
ScanLeavesReadBuffer ==
    /\ [](tick_pos >= 0 =>
            Alive([tick_loop(self, tick_pos \div width, tick_pos % width)
                       EXCEPT !.cells = db_update(@)])
                = LifeStep(Alive(self), width, height))
    /\ [][/\ (tick_pos >= 0 /\ tick_pos' = tick_pos + 1) =>
                /\ cells'.rbuf = cells.rbuf
                /\ cells'.wbuf.length = cells.wbuf.length
                /\ \A i \in 0 .. cells.wbuf.length - 1 :
                       i # get_index(self, tick_pos \div width, tick_pos % width) =>
                           contains(cells'.wbuf, i) = contains(cells.wbuf, i)
          /\ cells'.rbuf # cells.rbuf =>
                (tick_pos = width * height /\ tick_pos' = -1)]_vars

\* C13 witness: the scan of a tick() on a 3 x 3 universe has written its last
\* cell and the commit has not run: the write buffer holds the next
\* generation, the read buffer still the current one, and they differ.
ScanLeavesReadBufferWitness ==
    /\ width = 3 /\ height = 3
    /\ tick_pos = width * height
    /\ cells.wbuf # cells.rbuf
    /\ Alive([self EXCEPT !.cells = db_update(@)]) = LifeStep(Alive(self), width, height)

\* The index idx lies in 0..width*height and inside both buffers.
Inside(idx) ==
    /\ idx >= 0
    /\ idx < width * height
    /\ idx < cells.rbuf.length
    /\ idx < cells.wbuf.length

\* C14: on every grid with width >= 1 and height >= 1, every index computed
\* lies in 0..width*height and inside the cell storage: get_index(row, column)
\* for row < height and column < width, the eight neighbour indices of every
\* cell that tick() computes through live_neighbor_count, and every index
\* create_glider and create_pulsar compute, for any anchor (also where the
\* i32 sum wraps) and every offset of the two tables.
IndicesStayInside ==
    /\ \A p \in Positions :
           /\ Inside(get_index(self, p[1], p[2]))
           /\ \A k \in 1 .. 8 : Inside(neighbor_indices(self, p[1], p[2])[k])
    /\ \A a \in ExtremeAnchors :
           /\ \A i \in 0 .. (Len(GLIDER) \div 2) - 1 :
                  Inside(figure_index(self, GLIDER, a[1], a[2], i))
           /\ \A i \in 0 .. (Len(PULSAR) \div 2) - 1 :
                  Inside(figure_index(self, PULSAR, a[1], a[2], i))

\* C14 witness: a glider has been stamped on a 4 x 3 universe, where the
\* north-west neighbour index of (0, 0) is the last index of the grid and the
\* glider anchored at (0, 0) has cells in the last rows and columns.
IndicesStayInsideWitness ==
    /\ last = "create_glider"
    /\ width = 4 /\ height = 3
    /\ neighbor_indices(self, 0, 0)[1] = width * height - 1
    /\ figure_index(self, GLIDER, U32(0), U32(0), 4) = 2 * width - 1
    /\ {<<0, 2>>, <<0, 3>>, <<0, 0>>, <<2, 0>>, <<1, 3>>} \subseteq Alive(self)

\* The cells named by a list given to set_cells.
Listed(list) == {list[i] : i \in 1 .. Len(list)}

\* C15: after every completed public mutating operation the write buffer
\* holds the same cells as the read buffer, so the operations that write only
\* some cells (toggle_cell, the figure stamps, set_cells) change the visible
\* generation at those cells and show every other cell as it was visible.
BuffersAgree ==
    ~panicked =>
        /\ cells.wbuf = cells.rbuf
        /\ \A p \in Positions :
               LET v == toggle_cell(self, p[1], p[2])
               IN  /\ v.cells.wbuf = v.cells.rbuf
                   /\ Alive(v) \ {p} = Alive(self) \ {p}
        /\ \A list \in CellLists :
               LET v == set_cells(self, list)
               IN  /\ v.cells.wbuf = v.cells.rbuf
                   /\ Alive(v) = Alive(self) \cup Listed(list)
        /\ \A a \in StampAnchors :
               LET v == create_glider(self, a[1], a[2])
               IN  /\ v.cells.wbuf = v.cells.rbuf
                   /\ Alive(self) \subseteq Alive(v)
                   /\ \A p \in Alive(v) \ Alive(self) :
                          \E i \in 0 .. 4 :
                              get_index(self, p[1], p[2])
                                  = figure_index(self, GLIDER, a[1], a[2], i)

\* C15 witness: toggle_cell has run after a tick on a 2 x 2 universe and left
\* three cells alive, both buffers holding them.
BuffersAgreeWitness ==
    /\ last = "toggle_cell"
    /\ ~panicked
    /\ width = 2 /\ height = 2
    /\ Cardinality(Alive(self)) = 3
    /\ cells.wbuf = cells.rbuf

\* C16: tick, update, toggle_cell, create_glider, create_pulsar, set_cells,
\* clear and reset leave width, height and n_ticks as they were; set_ticks
\* changes n_ticks only and leaves width, height and every cell as they were;
\* set_width leaves the height and set_height the width as it was.
FramesKept ==
    [][/\ last' \in {"tick", "update", "toggle_cell", "create_glider",
                     "create_pulsar", "set_cells", "clear", "reset"} =>
              (width' = width /\ height' = height /\ n_ticks' = n_ticks)
       /\ last' = "set_ticks" =>
              (width' = width /\ height' = height /\ cells' = cells
               /\ panicked' = panicked)
       /\ last' = "set_width" => height' = height
       /\ last' = "set_height" => width' = width]_vars

\* C16 witness: set_ticks(2) has run on a 2 x 2 universe with live cells,
\* which are still there.
FramesKeptWitness ==
    /\ last = "set_ticks"
    /\ n_ticks = 2
    /\ width = 2 /\ height = 2
    /\ Alive(self) # {}

\* The cells of `alive` moved by dr rows and dc columns on the torus.
Shifted(alive, dr, dc) == {<<(p[1] + dr) % height, (p[2] + dc) % width>> : p \in alive}

\* C17: on a cleared grid of at least 6 x 6, the five cells create_glider(r, c)
\* stamps are a glider: after exactly 4 tick() calls the live cells are the
\* stamped set moved by one row and one column along a diagonal, modulo the
\* dimensions, and no other cell is alive; the same holds from every later
\* generation on.
GliderTravels ==
    /\ Cardinality(Alive(self)) = 5
    /\ \E d \in {-1, 1} \X {-1, 1} :
           Alive(NTicks(self, 4)) = Shifted(Alive(self), d[1], d[2])
    /\ last = "create_glider" =>
           \E a \in GridAnchors(width, height) :
               Alive(self) = Alive(create_glider(clear(self), a[1], a[2]))

\* C17 witness: ticks have moved the glider stamped at (0, 0), which lies
\* across the edges, one row down and one column to the right.
GliderTravelsWitness ==
    /\ last = "tick"
    /\ Alive(self) = Shifted(Alive(create_glider(clear(self), U32(0), U32(0))), 1, 1)

\* C18: on a cleared grid of at least 17 x 17, create_pulsar(r, c) makes
\* exactly 48 distinct cells alive, and the pattern has period 3: the live
\* cells after 3 tick() calls are the stamped ones, those after 1 and after 2
\* are not.
PulsarOscillates ==
    LET t1 == tick(self)
        t2 == tick(t1)
        t3 == tick(t2)
    IN  /\ Alive(t1) # Alive(self)
        /\ Alive(t2) # Alive(self)
        /\ Alive(t3) = Alive(self)
        /\ last = "create_pulsar" => Cardinality(Alive(self)) = 48

\* C18 witness: ticks have brought back the 48 cells of the pulsar stamped at
\* (0, 0), which lies across the edges.
PulsarOscillatesWitness ==
    /\ last = "tick"
    /\ Cardinality(Alive(self)) = 48
    /\ Alive(self) = Alive(create_pulsar(clear(self), U32(0), U32(0)))

====
